---- MODULE Spec2Model ----
(***************************************************************************)
(* Model of pytorch_balanced_sampler/sampler.py: SamplerFactory,           *)
(* WeightedRandomBatchSampler, WeightedFixedBatchSampler and CircularList. *)
(*                                                                         *)
(* Real numbers (numpy float arrays) are modelled as exact rationals       *)
(* <<num, den>> with den > 0, kept in lowest terms.  Python lists are      *)
(* 1-based TLA+ sequences; Python positions (cursors, slice bounds) keep   *)
(* their 0-based values.                                                   *)
(***************************************************************************)
EXTENDS Integers, Sequences, FiniteSets, TLC

\* ------------------------------------------------------------------ bounds
MaxClasses == 5          \* number of classes of a caller's partition
MaxClassSize == 3        \* size of the majority class
MaxBatchSize == 4        \* batch_size passed to SamplerFactory.get
MaxBatches == 2          \* n_batches
AlphaDen == 2            \* alpha ranges over k / AlphaDen
MaxRandomSamples == 3    \* samples of a partition handed to the random sampler
MaxRandomBatch == 2      \* batch_size of a random sampler
MaxShuffledBatch == 3    \* batch size of a directly constructed shuffling sampler
MaxDirectClasses == 2    \* classes of a directly constructed fixed sampler
MaxQuotaSum == 5         \* sum of the quotas of a directly constructed sampler

\* ------------------------------------------------------- rational numbers
Abs(x) == IF x < 0 THEN -x ELSE x

RECURSIVE GCD(_, _)
GCD(a, b) == IF b = 0 THEN a ELSE GCD(b, a % b)

Rat(n, d) ==
    LET g == GCD(Abs(n), d) IN <<n \div g, d \div g>>

RatAdd(x, y) == Rat(x[1] * y[2] + y[1] * x[2], x[2] * y[2])
RatSub(x, y) == Rat(x[1] * y[2] - y[1] * x[2], x[2] * y[2])
RatMul(x, y) == Rat(x[1] * y[1], x[2] * y[2])
RatDivInt(x, n) == Rat(x[1], x[2] * n)
RatLeq(x, y) == x[1] * y[2] <= y[1] * x[2]

RECURSIVE RatSum(_)
RatSum(s) == IF s = <<>> THEN Rat(0, 1) ELSE RatAdd(s[1], RatSum(Tail(s)))

RECURSIVE Sum(_)
Sum(s) == IF s = <<>> THEN 0 ELSE s[1] + Sum(Tail(s))

\* numpy.round: round half to even
NpRound(x) ==
    LET q == x[1] \div x[2]
        r == x[1] % x[2]
    IN  IF 2 * r < x[2] THEN q
        ELSE IF 2 * r > x[2] THEN q + 1
        ELSE IF q % 2 = 0 THEN q ELSE q + 1

\* numpy.argmax: position (1-based here) of the first largest entry
NpArgmax(s) ==
    CHOOSE i \in 1..Len(s) :
        /\ \A j \in 1..Len(s) : s[j] <= s[i]
        /\ \A j \in 1..(i - 1) : s[j] < s[i]

\* ----------------------------------------------------------- SamplerFactory
\* variant: alpha and beta exchanged
_balance_weights_swapped(weight_a, weight_b, alpha) ==
    LET beta == RatSub(Rat(1, 1), alpha)
    IN  [c \in 1..Len(weight_a) |->
            RatAdd(RatMul(beta, weight_a[c]), RatMul(alpha, weight_b[c]))]

\* weights = (alpha * weight_a) + (beta * weight_b), beta = 1 - alpha
_balance_weights(weight_a, weight_b, alpha) ==
    LET beta == RatSub(Rat(1, 1), alpha)
    IN  [c \in 1..Len(weight_a) |->
            RatAdd(RatMul(alpha, weight_a[c]), RatMul(beta, weight_b[c]))]

AlphaValid(alpha) == RatLeq(Rat(0, 1), alpha) /\ RatLeq(alpha, Rat(1, 1))

ClassSizes(idxs) == [c \in 1..Len(idxs) |-> Len(idxs[c])]

_weight_classes(idxs, alpha) ==
    LET class_sizes == ClassSizes(idxs)
        n_samples == Sum(class_sizes)
        n_classes == Len(idxs)
        original_weights == [c \in 1..n_classes |-> Rat(class_sizes[c], n_samples)]
        uniform_weights == [c \in 1..n_classes |-> Rat(1, n_classes)]
    IN  _balance_weights(uniform_weights, original_weights, alpha)

_sample_rates(w, class_sizes) ==
    [c \in 1..Len(w) |-> RatDivInt(w[c], class_sizes[c])]

\* np.round(weights * batch_size).astype(int)
RoundedCounts(w, size) ==
    [c \in 1..Len(w) |-> NpRound(RatMul(w[c], Rat(size, 1)))]

\* variant: the rounding remainder is not added back
_fix_batches_no_cleanup(w, size) == RoundedCounts(w, size)

_fix_batches(w, size) ==
    LET rounded == RoundedCounts(w, size)
        remainder == size - Sum(rounded)
        largest_class == NpArgmax(rounded)
    IN  [rounded EXCEPT ![largest_class] = @ + remainder]

\* ------------------------------------------------------ lists and pools
RECURSIVE Concat(_)
Concat(ss) == IF ss = <<>> THEN <<>> ELSE ss[1] \o Concat(Tail(ss))

Min(a, b) == IF a < b THEN a ELSE b
Max(a, b) == IF a > b THEN a ELSE b

\* variant: a plain list read as if it wrapped around
PySliceWrapping(items, start, stop) ==
    [k \in 1..Max(stop - start, 0) |-> items[((start + k - 1) % Len(items)) + 1]]

\* list[start:stop] of a plain Python list: bounds are clamped to the list
PySlice(items, start, stop) ==
    LET n == Len(items)
        lo == IF start < 0 THEN Max(start + n, 0) ELSE Min(start, n)
        hi == IF stop < 0 THEN Max(stop + n, 0) ELSE Min(stop, n)
    IN  [k \in 1..Max(hi - lo, 0) |-> items[lo + k]]

\* variant: the key is clamped to the list instead of taken modulo its length
CircularItemClamped(items, key) == items[Min(Max(key, 0), Len(items) - 1) + 1]

\* CircularList.__getitem__ for an int key: self._items[key % self._mod]
CircularItem(items, key) == items[(key % Len(items)) + 1]

\* variant: the range includes key.stop
CircularSliceOffByOne(items, start, stop) ==
    [k \in 1..Max(stop + 1 - start, 0) |-> CircularItem(items, start + k - 1)]

\* CircularList.__getitem__ for a slice: [self[i] for i in range(start, stop)]
CircularSlice(items, start, stop) ==
    [k \in 1..Max(stop - start, 0) |-> CircularItem(items, start + k - 1)]

Remove(s, i) == [k \in 1..(Len(s) - 1) |-> IF k < i THEN s[k] ELSE s[k + 1]]

\* every order random_state.shuffle can leave a list in
RECURSIVE Shuffles(_)
Shuffles(s) ==
    IF s = <<>> THEN {<<>>}
    ELSE UNION { { <<s[i]>> \o t : t \in Shuffles(Remove(s, i)) } : i \in 1..Len(s) }

\* ------------------------------------------------------------------ state
VARIABLES
    class_idxs,               \* the caller's list objects, one per class
    given_idxs,               \* the caller's own copy of their contents before any call
    get_args,                 \* arguments of SamplerFactory.get (kind "none": not called)
    weights,                  \* result of _weight_classes
    kind,                     \* class of the sampler object: "none", "random", "fixed"
    class_samples_per_batch,  \* WeightedFixedBatchSampler.class_samples_per_batch
    batch_size,               \* self.batch_size / the WeightedRandomSampler's num_samples
    n_batches,                \* self.n_batches
    circular_list,            \* pools are CircularList wrappers of the caller's lists
    shuffle,                  \* self.random_state is not None
    sample_idxs,              \* WeightedRandomBatchSampler.sample_idxs
    sample_weights,           \* weights handed to WeightedRandomSampler
    pc,                       \* "NoSampler", "Created", "Iterating", "Exhausted", "Error"
    err,                      \* exception raised, or "none"
    start_idxs,               \* the running pass's start_idxs
    bidx,                     \* number of batches the running pass has yielded
    selected,                 \* the batch yielded last by the running pass
    first_pass                \* batches an observer recorded, by batch number, the first
                              \* time a sampler without random source yielded that number

vars == <<class_idxs, given_idxs, get_args, weights, kind, class_samples_per_batch,
          batch_size, n_batches, circular_list, shuffle, sample_idxs, sample_weights,
          pc, err, start_idxs, bidx, selected, first_pass>>

\* ----------------------------------------------------------------- inputs
\* one majority class of s indices followed by n_classes - 1 classes of one index
MajorityPartition(n_classes, s) ==
    [c \in 1..n_classes |->
        IF c = 1 THEN [k \in 1..s |-> k - 1] ELSE <<s + c - 2>>]

\* non-contiguous indices, and a partition whose classes share an index
ExamplePartitions == { << <<5, 7>> >>, << <<5, 7>>, <<6>> >>, << <<0, 1>>, <<1>> >> }

Partitions ==
    { MajorityPartition(n, s) : n \in 1..MaxClasses, s \in 1..MaxClassSize }
        \cup ExamplePartitions

Alphas == { Rat(k, AlphaDen) : k \in -1..(AlphaDen + 1) }

Kinds == {"random", "fixed", "other"}

Quotas(n) == { q \in [1..n -> 0..MaxQuotaSum] : Sum(q) <= MaxQuotaSum }

Init ==
    /\ class_idxs \in Partitions
    /\ given_idxs = class_idxs
    /\ get_args = [batch_size |-> 0, n_batches |-> 0, alpha |-> Rat(0, 1), kind |-> "none"]
    /\ weights = <<>>
    /\ kind = "none"
    /\ class_samples_per_batch = <<>>
    /\ batch_size = 0
    /\ n_batches = 0
    /\ circular_list = FALSE
    /\ shuffle = FALSE
    /\ sample_idxs = <<>>
    /\ sample_weights = <<>>
    /\ pc = "NoSampler"
    /\ err = "none"
    /\ start_idxs = <<>>
    /\ bidx = 0
    /\ selected = <<>>
    /\ first_pass = <<>>

\* ------------------------------------------- WeightedFixedBatchSampler
\* __init__(class_samples_per_batch, class_idxs, n_batches, circular_list, shuffle):
\* the pools wrap, or are, the caller's list objects; nothing is copied
FixedSamplerInit(quota, nb, circular, shuf) ==
    /\ kind' = "fixed"
    /\ class_samples_per_batch' = quota
    /\ n_batches' = nb
    /\ batch_size' = Sum(quota)
    /\ circular_list' = circular
    /\ shuffle' = shuf
    /\ IF Len(quota) = Len(class_idxs)
         THEN pc' = "Created" /\ err' = "none"
         ELSE pc' = "Error" /\ err' = "AssertionError"
    /\ UNCHANGED <<class_idxs, given_idxs, sample_idxs, sample_weights,
                   start_idxs, bidx, selected, first_pass>>

\* a caller constructs the fixed sampler itself
Construct ==
    /\ pc = "NoSampler"
    /\ Len(class_idxs) <= MaxDirectClasses
    /\ \E quota \in Quotas(Len(class_idxs)), nb \in 1..MaxBatches,
          circular \in BOOLEAN, shuf \in BOOLEAN :
            /\ shuf => Sum(quota) <= MaxShuffledBatch
            /\ FixedSamplerInit(quota, nb, circular, shuf)
    /\ UNCHANGED <<get_args, weights>>

\* variant: the cursors of the pass before are kept
StartIdxsKept(n) == IF Len(start_idxs) = n THEN start_idxs ELSE [c \in 1..n |-> 0]

\* start_idxs = np.zeros(self.n_classes, dtype=int)
StartIdxsZero(n) == [c \in 1..n |-> 0]

\* every way the calls cidx.shuffle(random_state) can leave the pools
RECURSIVE ShuffleEach(_)
ShuffleEach(pools) ==
    IF pools = <<>> THEN {<<>>}
    ELSE { <<h>> \o t : h \in Shuffles(pools[1]), t \in ShuffleEach(Tail(pools)) }

\* __iter__ up to its loop (run by the first next() of the new generator): a
\* new pass, whatever became of the one before.
\* A plain list (circular_list=False) has no shuffle method.
FixedIter ==
    /\ kind = "fixed"
    /\ pc \in {"Created", "Iterating", "Exhausted"}
    /\ IF shuffle /\ ~circular_list
         THEN /\ pc' = "Error"
              /\ err' = "AttributeError"
              /\ UNCHANGED <<class_idxs, start_idxs, bidx, selected>>
         ELSE /\ class_idxs' \in (IF shuffle THEN ShuffleEach(class_idxs) ELSE {class_idxs})
              /\ start_idxs' = StartIdxsZero(Len(class_samples_per_batch))
              /\ bidx' = 0
              /\ selected' = <<>>
              /\ pc' = "Iterating"
              /\ err' = "none"
    /\ UNCHANGED <<given_idxs, get_args, weights, kind, class_samples_per_batch,
                   batch_size, n_batches, circular_list, shuffle, sample_idxs,
                   sample_weights, first_pass>>

\* self.class_idxs[c][start_idxs[c]:start_idxs[c] + size]
ReadPool(c, start, size) ==
    IF circular_list
      THEN CircularSlice(class_idxs[c], start, start + size)
      ELSE PySlice(class_idxs[c], start, start + size)

\* _get_batch before its shuffle: the reads of all classes, in class order
_get_batch(starts) ==
    Concat([c \in 1..Len(class_samples_per_batch) |->
                ReadPool(c, starts[c], class_samples_per_batch[c])])

\* one turn of the loop of __iter__: yield _get_batch(start_idxs), then
\* start_idxs += self.class_samples_per_batch
FixedNext ==
    /\ kind = "fixed"
    /\ pc = "Iterating"
    /\ bidx < n_batches
    /\ selected' \in (IF shuffle THEN Shuffles(_get_batch(start_idxs))
                                 ELSE {_get_batch(start_idxs)})
    /\ start_idxs' = [c \in 1..Len(start_idxs) |->
                          start_idxs[c] + class_samples_per_batch[c]]
    /\ bidx' = bidx + 1
    /\ first_pass' = IF ~shuffle /\ Len(first_pass) = bidx
                       THEN Append(first_pass, selected')
                       ELSE first_pass
    /\ UNCHANGED <<class_idxs, given_idxs, get_args, weights, kind,
                   class_samples_per_batch, batch_size, n_batches, circular_list,
                   shuffle, sample_idxs, sample_weights, pc, err>>

\* the loop of __iter__ ends after n_batches batches
FixedStop ==
    /\ kind = "fixed"
    /\ pc = "Iterating"
    /\ bidx = n_batches
    /\ pc' = "Exhausted"
    /\ UNCHANGED <<class_idxs, given_idxs, get_args, weights, kind,
                   class_samples_per_batch, batch_size, n_batches, circular_list,
                   shuffle, sample_idxs, sample_weights, err, start_idxs, bidx,
                   selected, first_pass>>

\* ------------------------------------------ WeightedRandomBatchSampler
\* __init__: sample_idxs is a new list holding every class's indices, and each
\* sample carries its class's rate
RandomSamplerInit(rates, size, nb) ==
    /\ kind' = "random"
    /\ sample_idxs' = Concat(class_idxs)
    /\ sample_weights' = Concat([c \in 1..Len(rates) |->
                                    [k \in 1..Len(class_idxs[c]) |-> rates[c]]])
    /\ batch_size' = size
    /\ n_batches' = nb
    /\ pc' = "Created"
    /\ err' = "none"
    /\ UNCHANGED <<class_idxs, given_idxs, class_samples_per_batch, circular_list,
                   shuffle, start_idxs, bidx, selected, first_pass>>

RandomIter ==
    /\ kind = "random"
    /\ pc \in {"Created", "Iterating", "Exhausted"}
    /\ pc' = "Iterating"
    /\ bidx' = 0
    /\ selected' = <<>>
    /\ UNCHANGED <<class_idxs, given_idxs, get_args, weights, kind,
                   class_samples_per_batch, batch_size, n_batches, circular_list,
                   shuffle, sample_idxs, sample_weights, err, start_idxs, first_pass>>

\* positions WeightedRandomSampler can draw: those of positive weight
Drawable == { i \in 1..Len(sample_weights) : sample_weights[i][1] > 0 }

\* one turn of the loop of __iter__: batch_size draws with replacement, each
\* mapped through sample_idxs
RandomNext ==
    /\ kind = "random"
    /\ pc = "Iterating"
    /\ bidx < n_batches
    /\ \E draw \in [1..batch_size -> Drawable] :
          selected' = [k \in 1..batch_size |-> sample_idxs[draw[k]]]
    /\ bidx' = bidx + 1
    /\ UNCHANGED <<class_idxs, given_idxs, get_args, weights, kind,
                   class_samples_per_batch, batch_size, n_batches, circular_list,
                   shuffle, sample_idxs, sample_weights, pc, err, start_idxs,
                   first_pass>>

RandomStop ==
    /\ kind = "random"
    /\ pc = "Iterating"
    /\ bidx = n_batches
    /\ pc' = "Exhausted"
    /\ UNCHANGED <<class_idxs, given_idxs, get_args, weights, kind,
                   class_samples_per_batch, batch_size, n_batches, circular_list,
                   shuffle, sample_idxs, sample_weights, err, start_idxs, bidx,
                   selected, first_pass>>

\* ------------------------------------------------------ SamplerFactory.get
GetFails(e) ==
    /\ pc' = "Error"
    /\ err' = e
    /\ UNCHANGED <<class_idxs, given_idxs, weights, kind, class_samples_per_batch,
                   batch_size, n_batches, circular_list, shuffle, sample_idxs,
                   sample_weights, start_idxs, bidx, selected, first_pass>>

\* SamplerFactory.random
random(size, nb, alpha) ==
    IF ~AlphaValid(alpha) THEN GetFails("AssertionError")
    ELSE /\ weights' = _weight_classes(class_idxs, alpha)
         /\ RandomSamplerInit(_sample_rates(weights', ClassSizes(class_idxs)), size, nb)

\* SamplerFactory.fixed
fixed(size, nb, alpha) ==
    IF ~AlphaValid(alpha) THEN GetFails("AssertionError")
    ELSE LET w == _weight_classes(class_idxs, alpha)
             quota == _fix_batches(w, size)
         IN  IF Sum(quota) # size THEN GetFails("AssertionError")
             ELSE /\ weights' = w
                  /\ FixedSamplerInit(quota, nb, TRUE, FALSE)

Get ==
    /\ pc = "NoSampler"
    /\ \E size \in 1..MaxBatchSize, nb \in 1..MaxBatches, alpha \in Alphas, k \in Kinds :
          /\ k = "random" => /\ Len(Concat(class_idxs)) <= MaxRandomSamples
                             /\ size <= MaxRandomBatch
          /\ get_args' = [batch_size |-> size, n_batches |-> nb, alpha |-> alpha, kind |-> k]
          /\ CASE k = "random" -> random(size, nb, alpha)
               [] k = "fixed" -> fixed(size, nb, alpha)
               [] OTHER -> GetFails("Exception")

Next ==
    \/ Get
    \/ Construct
    \/ FixedIter
    \/ FixedNext
    \/ FixedStop
    \/ RandomIter
    \/ RandomNext
    \/ RandomStop

Spec == Init /\ [][Next]_vars

\* ================================================================ claims
FactoryBuilt == get_args.kind \in {"fixed", "random"} /\ kind # "none"

Quota == class_samples_per_batch

NClasses == Len(class_idxs)

RangeOf(s) == { s[i] : i \in 1..Len(s) }

Count(s, S) == Cardinality({ i \in 1..Len(s) : s[i] \in S })

SameMultiset(s, t) ==
    /\ Len(s) = Len(t)
    /\ \A v \in RangeOf(s) \cup RangeOf(t) : Count(s, {v}) = Count(t, {v})

\* C1: whenever get is called with kind fixed and a valid alpha, _fix_batches
\* passes its assertion and the quota vector it returns sums to batch_size.
C1_QuotaSumsToBatchSize ==
    (get_args.kind = "fixed" /\ AlphaValid(get_args.alpha)) =>
        /\ err # "AssertionError"
        /\ kind = "fixed"
        /\ Len(Quota) = NClasses
        /\ Sum(Quota) = get_args.batch_size

\* a factory-built fixed sampler whose rounded counts did not sum to batch_size
C1_Witness ==
    /\ get_args.kind = "fixed"
    /\ kind = "fixed"
    /\ Sum(RoundedCounts(weights, get_args.batch_size)) # get_args.batch_size

\* C2: a sampler returned by get yields n_batches batches per pass, each of
\* exactly batch_size indices, and its length is n_batches.
C2_FactoryBatches ==
    FactoryBuilt =>
        /\ n_batches = get_args.n_batches
        /\ bidx <= get_args.n_batches
        /\ pc = "Exhausted" => bidx = get_args.n_batches
        /\ bidx >= 1 => Len(selected) = get_args.batch_size

\* C3: every entry of the quota vector returned by _fix_batches is >= 0.
C3_QuotaNonNegative ==
    (get_args.kind = "fixed" /\ kind = "fixed") =>
        \A c \in 1..Len(Quota) : Quota[c] >= 0

\* batch number b (0-based) reads class c's pool past its end
Overruns(b) == \E c \in 1..NClasses : (b + 1) * Quota[c] > Len(class_idxs[c])

C5_Weights ==
    (get_args.kind \in {"fixed", "random"} /\ AlphaValid(get_args.alpha)) =>
        LET a == get_args.alpha[1]
            d == get_args.alpha[2]
            size == ClassSizes(given_idxs)
            N == Sum(size)
        IN  /\ Len(weights) = NClasses
            /\ \A c \in 1..NClasses :
                  /\ weights[c][1] * (d * NClasses * N)
                        = (a * N + (d - a) * size[c] * NClasses) * weights[c][2]
                  /\ weights[c][1] >= 0
                  /\ weights[c][2] > 0
                  /\ a = 0 => weights[c] = Rat(size[c], N)
                  /\ a = d => weights[c] = Rat(1, NClasses)
            /\ RatSum(weights) = <<1, 1>>

\* weights of an imbalanced partition under an alpha strictly between 0 and 1
C5_Witness ==
    /\ FactoryBuilt
    /\ 0 < get_args.alpha[1]
    /\ get_args.alpha[1] < get_args.alpha[2]
    /\ NClasses >= 2
    /\ weights[1] # weights[2]

C7_BatchContents ==
    (/\ kind = "fixed" /\ circular_list /\ ~shuffle
     /\ \A c \in 1..Len(Quota) : Quota[c] >= 0
     /\ bidx >= 1) =>
        selected = Concat([c \in 1..NClasses |->
                      [k \in 1..Quota[c] |->
                          class_idxs[c][(((bidx - 1) * Quota[c] + k - 1)
                                            % Len(class_idxs[c])) + 1]]])

\* pool [5,7] read with quota 5 at cursor 0
C7_Witness ==
    /\ kind = "fixed" /\ circular_list /\ ~shuffle
    /\ class_idxs = << <<5, 7>> >>
    /\ Quota = <<5>>
    /\ bidx = 1
    /\ selected = <<5, 7, 5, 7, 5>>

\* C8: the caller's class index sequences keep their elements and their order.
C8_PartitionUnchanged == class_idxs = given_idxs

Disjoint(idxs) ==
    \A c, e \in 1..Len(idxs) : c # e => RangeOf(idxs[c]) \cap RangeOf(idxs[e]) = {}

\* C9: with circular pools, shuffle, non-negative quotas and disjoint classes,
\* each pool keeps its multiset of indices, the cursors advance by the quotas,
\* and every yielded batch is a permutation of the reads at the cursors, holding
\* exactly quota[c] indices of class c.
C9_ShuffledBatchQuota ==
    (/\ kind = "fixed" /\ circular_list /\ shuffle
     /\ \A c \in 1..Len(Quota) : Quota[c] >= 0
     /\ Disjoint(given_idxs)) =>
        /\ \A c \in 1..NClasses : SameMultiset(class_idxs[c], given_idxs[c])
        /\ pc \in {"Iterating", "Exhausted"} =>
              \A c \in 1..NClasses : start_idxs[c] = bidx * Quota[c]
        /\ bidx >= 1 =>
              /\ \A c \in 1..NClasses : Count(selected, RangeOf(given_idxs[c])) = Quota[c]
              /\ SameMultiset(selected,
                     _get_batch([c \in 1..NClasses |-> start_idxs[c] - Quota[c]]))

\* second batch of a pass over shuffled pools, itself out of class order
C9_Witness ==
    /\ kind = "fixed" /\ circular_list /\ shuffle
    /\ Disjoint(given_idxs)
    /\ NClasses = 2
    /\ Quota[1] > 0 /\ Quota[2] > 0
    /\ class_idxs # given_idxs
    /\ bidx = 2
    /\ selected[1] \in RangeOf(given_idxs[2])

\* C10: a pass of a shuffling fixed sampler starts without raising an error,
\* whether its pools are circular or bounded.
C10_ShuffledPassStarts ==
    (kind = "fixed" /\ shuffle) => (pc # "Error" /\ err = "none")

====
